---- MODULE Spec2Model ----
(***************************************************************************)
(* Model of embedded-rgba: a fixed-size framebuffer with clipped writes,   *)
(* an alpha-compositing drawing surface over it, per-format blend          *)
(* arithmetic, and single/double buffered presentation to a sink.          *)
(*                                                                         *)
(* Cell indices are 0-based as in the source; a buffer is a TLA+ sequence, *)
(* so cell idx of the source is element idx + 1 here.                      *)
(***************************************************************************)
EXTENDS Integers, Naturals, Sequences, FiniteSets, TLC

(***************************************************************************)
(* Bounds of the model.                                                    *)
(***************************************************************************)
W == 2              \* framebuffer width  (const generic W)
H == 2              \* framebuffer height (const generic H)
MaxOps == 3         \* operations issued to one canvas
MaxPixels == 2      \* longest pixel sequence handed to draw_iter
MaxExtra == 1       \* colours a streamed sequence holds beyond width*height
MaxSample == 2      \* grey levels 0..MaxSample among the colours handed to blend

N == W * H          \* buffer length, N == width*height (framebuffer.rs:14)

Min(a, b) == IF a < b THEN a ELSE b
Max(a, b) == IF a > b THEN a ELSE b

(***************************************************************************)
(* Machine integers.  A u32 is kept as two 16-bit limbs <<hi, lo>>, so     *)
(* that wrapping 32-bit arithmetic is computed exactly.                    *)
(***************************************************************************)
Limb == 2 ^ 16

\* `as u32` of an i32 (two's complement) or of a small unsigned value
AsU32(x) == <<(x \div Limb) % Limb, x % Limb>>

\* `<` on u32
u32_lt(a, b) == a[1] < b[1] \/ (a[1] = b[1] /\ a[2] < b[2])

\* u32::wrapping_sub
wrapping_sub(a, b) ==
    <<(a[1] - b[1] - (IF a[2] < b[2] THEN 1 ELSE 0)) % Limb, (a[2] - b[2]) % Limb>>

\* u32 `*` by a value below 2^8 and u32 `+`, in a build where overflow wraps
wrapping_mul(a, k) == <<(a[1] * k + ((a[2] * k) \div Limb)) % Limb, (a[2] * k) % Limb>>
wrapping_add(a, b) == <<(a[1] + b[1] + ((a[2] + b[2]) \div Limb)) % Limb, (a[2] + b[2]) % Limb>>

\* u32 `*` and `+` whose true result does not fit 32 bits: a build with overflow
\* checks panics there, a build without them wraps as above
mul_overflows(a, k) == a[1] * k + ((a[2] * k) \div Limb) >= Limb
add_overflows(a, b) == a[1] + b[1] + ((a[2] + b[2]) \div Limb) >= Limb

\* `>> 8` on u32
shr8(a) == <<a[1] \div 256, (a[1] % 256) * 256 + (a[2] \div 256)>>

\* `& ((1 << bits) - 1)` on u32, bits <= 16; `as u8` is LowBits(a, 8)
LowBits(a, bits) == a[2] % (2 ^ bits)

Shr(x, k) == x \div (2 ^ k)                   \* `>>` on a small value
Shl(x, k) == x * (2 ^ k)                      \* `<<` on a small value
BitAndMask(x, bits) == x % (2 ^ bits)         \* `& ((1 << bits) - 1)` on a small value

(***************************************************************************)
(* Colours.  A colour is <<r, g, b>> with channel widths set by its format.*)
(***************************************************************************)
Formats == {"565", "666", "888"}

ChanBits(fmt) ==
    CASE fmt = "565" -> <<5, 6, 5>>
      [] fmt = "666" -> <<6, 6, 6>>
      [] fmt = "888" -> <<8, 8, 8>>

ChanMax(fmt, i) == 2 ^ ChanBits(fmt)[i] - 1

BLACK == <<0, 0, 0>>
WhiteOf(fmt) == <<ChanMax(fmt, 1), ChanMax(fmt, 2), ChanMax(fmt, 3)>>
RedOf(fmt) == <<ChanMax(fmt, 1), 0, 0>>

\* Rgb565::into_storage and Rgb565::from(RawU16): 0bRRRRRGGGGGGBBBBB
IntoStorage565(c) == Shl(c[1], 11) + Shl(c[2], 5) + c[3]
FromRaw565(raw) ==
    <<BitAndMask(Shr(raw, 11), 5), BitAndMask(Shr(raw, 5), 6), BitAndMask(raw, 5)>>

\* Rgb666::new masks each u8 argument to 6 bits; Rgb888::new keeps 8 bits.
Rgb666New(r, g, b) == <<BitAndMask(r, 6), BitAndMask(g, 6), BitAndMask(b, 6)>>
Rgb888New(r, g, b) == <<r, g, b>>

\* Rgba<C>(C, u8)
Rgba(c, a) == [rgb |-> c, a |-> a]

(***************************************************************************)
(* Blend arithmetic (rgba.rs).                                             *)
(***************************************************************************)
mul_blend_u8(delta, a) ==
    LET t == wrapping_add(wrapping_mul(delta, a), AsU32(128))
    IN  shr8(wrapping_add(t, shr8(t)))

\* fault variant of the channel blend: the difference is taken as background - foreground
BlendChannel_delta_reversed(f, b, a, bits) ==
    LowBits(wrapping_add(AsU32(b), mul_blend_u8(wrapping_sub(AsU32(b), AsU32(f)), a)), bits)

\* (b + mul_blend_u8(f.wrapping_sub(b), a)) masked to the channel's width
BlendChannel(f, b, a, bits) ==
    LowBits(wrapping_add(AsU32(b), mul_blend_u8(wrapping_sub(AsU32(f), AsU32(b)), a)), bits)

\* fault variant of Blend565: the two early exits return the wrong colour
Blend565_exits_swapped(fg, bg) ==
    LET f == IntoStorage565(fg.rgb)
        b == IntoStorage565(bg)
        r == BlendChannel(BitAndMask(Shr(f, 11), 5), BitAndMask(Shr(b, 11), 5), fg.a, 5)
        g == BlendChannel(BitAndMask(Shr(f, 5), 6), BitAndMask(Shr(b, 5), 6), fg.a, 6)
        bl == BlendChannel(BitAndMask(f, 5), BitAndMask(b, 5), fg.a, 5)
    IN  IF fg.a = 0 THEN fg.rgb
        ELSE IF fg.a = 255 THEN bg
        ELSE FromRaw565((Shl(r, 11) + Shl(g, 5) + bl) % Limb)

Blend565(fg, bg) ==
    LET a == fg.a
        f == IntoStorage565(fg.rgb)
        b == IntoStorage565(bg)
        fr == BitAndMask(Shr(f, 11), 5)
        fgc == BitAndMask(Shr(f, 5), 6)
        fb == BitAndMask(f, 5)
        br == BitAndMask(Shr(b, 11), 5)
        bgc == BitAndMask(Shr(b, 5), 6)
        bb == BitAndMask(b, 5)
        r == BlendChannel(fr, br, a, 5)
        g == BlendChannel(fgc, bgc, a, 6)
        bl == BlendChannel(fb, bb, a, 5)
        out == (Shl(r, 11) + Shl(g, 5) + bl) % Limb
    IN  IF a = 0 THEN bg
        ELSE IF a = 255 THEN fg.rgb
        ELSE FromRaw565(out)

Blend888(fg, bg) ==
    LET a == fg.a
        r == BlendChannel(fg.rgb[1], bg[1], a, 8)
        g == BlendChannel(fg.rgb[2], bg[2], a, 8)
        b == BlendChannel(fg.rgb[3], bg[3], a, 8)
    IN  IF a = 0 THEN bg
        ELSE IF a = 255 THEN fg.rgb
        ELSE Rgb888New(r, g, b)

Blend666(fg, bg) ==
    LET a == fg.a
        r == BlendChannel(fg.rgb[1], bg[1], a, 8)
        g == BlendChannel(fg.rgb[2], bg[2], a, 8)
        b == BlendChannel(fg.rgb[3], bg[3], a, 8)
    IN  IF a = 0 THEN bg
        ELSE IF a = 255 THEN fg.rgb
        ELSE Rgb666New(r, g, b)

\* whether one of the plain `*` and `+` of mul_blend_u8 overflows u32
mul_blend_u8_overflows(delta, a) ==
    LET p == wrapping_mul(delta, a)
        t == wrapping_add(p, AsU32(128))
    IN  mul_overflows(delta, a) \/ add_overflows(p, AsU32(128)) \/ add_overflows(t, shr8(t))

\* the same for `b + mul_blend_u8(f.wrapping_sub(b), a)`; wrapping_sub itself never panics
BlendChannelOverflows(f, b, a) ==
    LET delta == wrapping_sub(AsU32(f), AsU32(b))
    IN  mul_blend_u8_overflows(delta, a) \/ add_overflows(AsU32(b), mul_blend_u8(delta, a))

\* whether fg.blend(bg) reaches an overflowing operation (alpha 0 and 255 return early)
BlendOverflows(fg, bg) ==
    /\ fg.a \notin {0, 255}
    /\ \E i \in 1..3 : BlendChannelOverflows(fg.rgb[i], bg[i], fg.a)

\* Blend<C> for Rgba<C>: the implementation selected by the colour type.
Blend(fmt, fg, bg) ==
    CASE fmt = "565" -> Blend565(fg, bg)
      [] fmt = "666" -> Blend666(fg, bg)
      [] fmt = "888" -> Blend888(fg, bg)

(***************************************************************************)
(* Rectangles (embedded-graphics Rectangle, as used by the fill            *)
(* operations): signed top-left, unsigned size.                            *)
(***************************************************************************)
Rect(x, y, w, h) == [x |-> x, y |-> y, w |-> w, h |-> h]

NoPoint == [some |-> FALSE, x |-> 0, y |-> 0]
SomePoint(x, y) == [some |-> TRUE, x |-> x, y |-> y]

\* Rectangle::bottom_right: None for a rectangle with a zero dimension
bottom_right(r) ==
    IF r.w > 0 /\ r.h > 0 THEN SomePoint(r.x + r.w - 1, r.y + r.h - 1) ELSE NoPoint

\* Rectangle::with_corners
with_corners(x1, y1, x2, y2) ==
    Rect(Min(x1, x2), Min(y1, y2),
         Max(x1, x2) - Min(x1, x2) + 1, Max(y1, y2) - Min(y1, y2) + 1)

overlaps(lo1, hi1, lo2, hi2) == Max(lo1, lo2) <= Min(hi1, hi2)

point_inside(px, py, r, br) ==
    px >= r.x /\ px <= br.x /\ py >= r.y /\ py <= br.y

\* Rectangle::intersection: a zero sized rectangle when the two do not overlap
intersection(self, other) ==
    LET obr == bottom_right(other)
        sbr == bottom_right(self)
    IN  IF obr.some /\ sbr.some
        THEN IF /\ overlaps(self.x, sbr.x, other.x, obr.x)
                /\ overlaps(self.y, sbr.y, other.y, obr.y)
             THEN with_corners(Max(self.x, other.x), Max(self.y, other.y),
                               Min(sbr.x, obr.x), Min(sbr.y, obr.y))
             ELSE Rect(0, 0, 0, 0)
        ELSE IF obr.some /\ point_inside(self.x, self.y, other, obr) THEN self
        ELSE IF sbr.some /\ point_inside(other.x, other.y, self, sbr) THEN other
        ELSE Rect(0, 0, 0, 0)

(***************************************************************************)
(* Input sequences.  An iterator is the colours not yet yielded plus the   *)
(* number of next() calls made on it.                                      *)
(***************************************************************************)
IntoIter(colors) == [rest |-> colors, calls |-> 0]

\* one it.next() whose value is dropped
Next1(it) ==
    [rest |-> IF it.rest = <<>> THEN <<>> ELSE Tail(it.rest), calls |-> it.calls + 1]

\* `for _ in 0..n { let _ = it.next(); }`
RECURSIVE Discard(_, _)
Discard(it, n) == IF n <= 0 THEN it ELSE Discard(Next1(it), n - 1)

(***************************************************************************)
(* Framebuffer (framebuffer.rs).                                           *)
(***************************************************************************)
FramebufferNew(width, height) ==
    [buf |-> [i \in 1..N |-> BLACK], width |-> width, height |-> height]

iter_colors(fb) == fb.buf

idx(fb, x, y) == y * fb.width + x

bounding_box(fb) == Rect(0, 0, fb.width, fb.height)

\* A buffer may carry a log of the accesses made to it: the cell indices
\* read or written, whether an index or a slice range fell outside the buffer
\* (the access panics, in every build), and whether an arithmetic operation
\* of a blend overflowed (the blend panics in a build with overflow checks).
NoLog == [touched |-> {}, oob |-> FALSE, overflowed |-> FALSE]

Logged(fb) == [buf |-> fb.buf, width |-> fb.width, height |-> fb.height, log |-> NoLog]

Plain(fb) == [buf |-> fb.buf, width |-> fb.width, height |-> fb.height]

HasLog(fb) == "log" \in DOMAIN fb

\* the bounds check of `buf[i]`
InBuf(fb, i) == i >= 0 /\ i < Len(fb.buf)

\* buf[i] = c; nothing is written by or after an access that panicked
Store(fb, i, c) ==
    IF ~HasLog(fb) THEN [fb EXCEPT !.buf[i + 1] = c]
    ELSE IF fb.log.oob THEN fb
    ELSE IF InBuf(fb, i) THEN [fb EXCEPT !.buf[i + 1] = c, !.log.touched = @ \cup {i}]
    ELSE [fb EXCEPT !.log.oob = TRUE]

\* the bounds check of `buf[start..start + n]`, made when the slice is taken
Slice(fb, start, n) ==
    IF HasLog(fb) /\ ~(start >= 0 /\ start + n <= Len(fb.buf))
    THEN [fb EXCEPT !.log.oob = TRUE]
    ELSE fb

RECURSIVE FbDrawLoop(_, _, _)
FbDrawLoop(fb, pixels, n) ==
    IF pixels = <<>> THEN [fb |-> fb, consumed |-> n]
    ELSE LET p == Head(pixels)
             x == AsU32(p.x)
             y == AsU32(p.y)
             fb1 == IF u32_lt(x, AsU32(fb.width)) /\ u32_lt(y, AsU32(fb.height))
                    THEN Store(fb, idx(fb, x[2], y[2]), p.color)
                    ELSE fb
         IN  FbDrawLoop(fb1, Tail(pixels), n + 1)

\* fault variant of draw_iter: gives up when the first pixel is outside the bounds
fb_draw_iter_stops_outside(fb, pixels) ==
    IF /\ pixels # <<>>
       /\ ~(u32_lt(AsU32(pixels[1].x), AsU32(fb.width)) /\ u32_lt(AsU32(pixels[1].y), AsU32(fb.height)))
    THEN [fb |-> fb, consumed |-> 1]
    ELSE FbDrawLoop(fb, pixels, 0)

\* Framebuffer::draw_iter
fb_draw_iter(fb, pixels) == FbDrawLoop(fb, pixels, 0)

\* `for dst in &mut buf[start..start + n] { if let Some(c) = it.next() {..} else {break} }`
RECURSIVE FbWriteSpan(_, _, _, _)
FbWriteSpan(fb, it, start, n) ==
    IF n = 0 THEN [fb |-> fb, it |-> it]
    ELSE IF it.rest = <<>> THEN [fb |-> fb, it |-> Next1(it)]
    ELSE FbWriteSpan(Store(fb, start, Head(it.rest)), Next1(it), start + 1, n - 1)

\* fault variant of a fill_contiguous row: the colours left of the clip are not discarded
FbRow_keeps_left(fb, it, y, left_out, mid_w, right_out, cy0, cy1, cx0) ==
    LET mid == IF y >= cy0 /\ y < cy1
               THEN FbWriteSpan(Slice(fb, idx(fb, cx0, y), mid_w), it, idx(fb, cx0, y), mid_w)
               ELSE [fb |-> fb, it |-> Discard(it, mid_w)]
    IN  [fb |-> mid.fb, it |-> Discard(mid.it, right_out)]

\* one iteration of `for y in y0..y1`
FbRow(fb, it, y, left_out, mid_w, right_out, cy0, cy1, cx0) ==
    LET it1 == Discard(it, left_out)
        mid == IF y >= cy0 /\ y < cy1
               THEN FbWriteSpan(Slice(fb, idx(fb, cx0, y), mid_w), it1, idx(fb, cx0, y), mid_w)
               ELSE [fb |-> fb, it |-> Discard(it1, mid_w)]
    IN  [fb |-> mid.fb, it |-> Discard(mid.it, right_out)]

RECURSIVE FbRows(_, _, _, _, _, _, _, _, _, _)
FbRows(fb, it, y, y1, left_out, mid_w, right_out, cy0, cy1, cx0) ==
    IF y >= y1 THEN [fb |-> fb, it |-> it]
    ELSE LET r == FbRow(fb, it, y, left_out, mid_w, right_out, cy0, cy1, cx0)
         IN  FbRows(r.fb, r.it, y + 1, y1, left_out, mid_w, right_out, cy0, cy1, cx0)

\* fault variant of fill_contiguous: an empty clip returns without draining
fb_fill_contiguous_nodrain(fb, area, colors) ==
    LET it == IntoIter(colors)
        clipped == intersection(area, bounding_box(fb))
    IN  IF area.w = 0 \/ area.h = 0 THEN [fb |-> fb, it |-> it]
        ELSE IF clipped.w = 0 \/ clipped.h = 0 THEN [fb |-> fb, it |-> it]
        ELSE FbRows(fb, it, area.y, area.y + area.h,
                    Max(clipped.x - area.x, 0), clipped.w,
                    Max(bottom_right(area).x - bottom_right(clipped).x, 0),
                    clipped.y, clipped.y + clipped.h, clipped.x)

\* Framebuffer::fill_contiguous
fb_fill_contiguous(fb, area, colors) ==
    LET it == IntoIter(colors)
        clipped == intersection(area, bounding_box(fb))
    IN  IF area.w = 0 \/ area.h = 0 THEN [fb |-> fb, it |-> it]
        ELSE IF clipped.w = 0 \/ clipped.h = 0
        THEN [fb |-> fb, it |-> Discard(it, area.w * area.h)]
        ELSE FbRows(fb, it, area.y, area.y + area.h,
                    Max(clipped.x - area.x, 0), clipped.w,
                    Max(bottom_right(area).x - bottom_right(clipped).x, 0),
                    clipped.y, clipped.y + clipped.h, clipped.x)

\* buf[start..start + n].fill(color)
RECURSIVE SliceFill(_, _, _, _)
SliceFill(fb, start, n, color) ==
    IF n = 0 THEN fb ELSE SliceFill(Store(fb, start, color), start + 1, n - 1, color)

RECURSIVE FbSolidRows(_, _, _, _, _, _)
FbSolidRows(fb, y, y_end, x0, span_w, color) ==
    IF y >= y_end THEN fb
    ELSE FbSolidRows(SliceFill(Slice(fb, idx(fb, x0, y), span_w), idx(fb, x0, y), span_w, color),
                     y + 1, y_end, x0, span_w, color)

\* fault variant of fill_solid: the last clipped row is not filled
fb_fill_solid_skips_last_row(fb, area, color) ==
    LET clipped == intersection(area, bounding_box(fb))
    IN  IF clipped.w = 0 \/ clipped.h = 0 THEN fb
        ELSE FbSolidRows(fb, clipped.y, clipped.y + clipped.h - 1,
                         clipped.x, clipped.w, color)

\* Framebuffer::fill_solid
fb_fill_solid(fb, area, color) ==
    LET clipped == intersection(area, bounding_box(fb))
    IN  IF clipped.w = 0 \/ clipped.h = 0 THEN fb
        ELSE FbSolidRows(fb, clipped.y, clipped.y + clipped.h,
                         clipped.x, clipped.w, color)

\* Framebuffer::clear
fb_clear(fb, color) == [fb EXCEPT !.buf = [i \in 1..N |-> color]]

(***************************************************************************)
(* Alpha drawing surface (alpha.rs): the same operations on a borrowed     *)
(* framebuffer, compositing each colour over the cell it lands on.         *)
(***************************************************************************)
\* buf[i] as a value; an index outside the buffer yields no value (the read panics)
Load(fb, i) == IF InBuf(fb, i) THEN fb.buf[i + 1] ELSE BLACK

\* let bg = buf[idx]; buf[idx] = fg.blend(bg);
BlendCell(fmt, fb, i, fg) ==
    LET bg == Load(fb, i)
        fb1 == Store(fb, i, Blend(fmt, fg, bg))
    IN  IF HasLog(fb) /\ InBuf(fb, i) /\ BlendOverflows(fg, bg)
        THEN [fb1 EXCEPT !.log.overflowed = TRUE]
        ELSE fb1

RECURSIVE AlphaDrawLoop(_, _, _, _)
AlphaDrawLoop(fmt, fb, pixels, n) ==
    IF pixels = <<>> THEN [fb |-> fb, consumed |-> n]
    ELSE LET p == Head(pixels)
             fb1 == IF p.x >= 0 /\ p.x < W /\ p.y >= 0 /\ p.y < H
                    THEN BlendCell(fmt, fb, p.y * W + p.x, p.color)
                    ELSE fb
         IN  AlphaDrawLoop(fmt, fb1, Tail(pixels), n + 1)

\* AlphaCanvas::draw_iter
alpha_draw_iter(fmt, fb, pixels) == AlphaDrawLoop(fmt, fb, pixels, 0)

\* `for i in 0..mid_run { if let Some(fg) = it.next() {..} else {break} }`
RECURSIVE AlphaBlendSpan(_, _, _, _, _)
AlphaBlendSpan(fmt, fb, it, start, n) ==
    IF n = 0 THEN [fb |-> fb, it |-> it]
    ELSE IF it.rest = <<>> THEN [fb |-> fb, it |-> Next1(it)]
    ELSE AlphaBlendSpan(fmt, BlendCell(fmt, fb, start, Head(it.rest)),
                        Next1(it), start + 1, n - 1)

\* one iteration of `for y in area_top..area_bottom`
AlphaRow(fmt, fb, it, y, area_left, area_right, clip_left, clip_top, clip_right, clip_bottom) ==
    LET inside_y == y >= clip_top /\ y < clip_bottom
        left_run == Max(clip_left - area_left, 0)
        mid_run == IF inside_y THEN Max(clip_right - clip_left, 0) ELSE 0
        right_run == Max(area_right - clip_right, 0)
        it1 == Discard(it, left_run)
        mid == IF inside_y
               THEN AlphaBlendSpan(fmt, fb, it1, y * W + clip_left, mid_run)
               ELSE [fb |-> fb, it |-> Discard(it1, Max(clip_right - clip_left, 0))]
    IN  [fb |-> mid.fb, it |-> Discard(mid.it, right_run)]

RECURSIVE AlphaRows(_, _, _, _, _, _, _, _, _, _, _)
AlphaRows(fmt, fb, it, y, area_bottom, area_left, area_right, clip_left, clip_top, clip_right, clip_bottom) ==
    IF y >= area_bottom THEN [fb |-> fb, it |-> it]
    ELSE LET r == AlphaRow(fmt, fb, it, y, area_left, area_right,
                           clip_left, clip_top, clip_right, clip_bottom)
         IN  AlphaRows(fmt, r.fb, r.it, y + 1, area_bottom, area_left, area_right,
                       clip_left, clip_top, clip_right, clip_bottom)

\* AlphaCanvas::fill_contiguous
alpha_fill_contiguous(fmt, fb, area, colors) ==
    LET it == IntoIter(colors)
        area_right == area.x + area.w
        area_bottom == area.y + area.h
        clip_left == Max(0, area.x)
        clip_top == Max(0, area.y)
        clip_right == Min(W, area_right)
        clip_bottom == Min(H, area_bottom)
    IN  IF area.w = 0 \/ area.h = 0 THEN [fb |-> fb, it |-> it]
        ELSE IF clip_left >= clip_right \/ clip_top >= clip_bottom
        THEN [fb |-> fb, it |-> Discard(it, area.w * area.h)]
        ELSE AlphaRows(fmt, fb, it, area.y, area_bottom, area.x, area_right,
                       clip_left, clip_top, clip_right, clip_bottom)

\* `for idx in start..end { buf[idx] = oc; }`
RECURSIVE AlphaStoreRun(_, _, _, _)
AlphaStoreRun(fb, start, end, oc) ==
    IF start >= end THEN fb ELSE AlphaStoreRun(Store(fb, start, oc), start + 1, end, oc)

\* `for idx in start..end { let bg = buf[idx]; buf[idx] = color.blend(bg); }`
RECURSIVE AlphaBlendRun(_, _, _, _, _)
AlphaBlendRun(fmt, fb, start, end, color) ==
    IF start >= end THEN fb
    ELSE AlphaBlendRun(fmt, BlendCell(fmt, fb, start, color), start + 1, end, color)

RECURSIVE AlphaSolidRows(_, _, _, _, _, _, _)
AlphaSolidRows(fmt, fb, y, clip_bottom, clip_left, clip_right, color) ==
    IF y >= clip_bottom THEN fb
    ELSE LET row_start == y * W
             fb1 == IF color.a = 255
                    THEN AlphaStoreRun(fb, row_start + clip_left, row_start + clip_right,
                                       color.rgb)
                    ELSE AlphaBlendRun(fmt, fb, row_start + clip_left,
                                       row_start + clip_right, color)
         IN  AlphaSolidRows(fmt, fb1, y + 1, clip_bottom, clip_left, clip_right, color)

\* fault variant of AlphaCanvas::fill_solid: the right clip edge is one cell short
alpha_fill_solid_short_row(fmt, fb, area, color) ==
    LET clip_left == Max(0, area.x)
        clip_top == Max(0, area.y)
        clip_right == Min(W, area.x + area.w) - 1
        clip_bottom == Min(H, area.y + area.h)
    IN  IF color.a = 0 THEN fb
        ELSE IF clip_left >= clip_right \/ clip_top >= clip_bottom THEN fb
        ELSE AlphaSolidRows(fmt, fb, clip_top, clip_bottom, clip_left, clip_right, color)

\* AlphaCanvas::fill_solid
alpha_fill_solid(fmt, fb, area, color) ==
    LET clip_left == Max(0, area.x)
        clip_top == Max(0, area.y)
        clip_right == Min(W, area.x + area.w)
        clip_bottom == Min(H, area.y + area.h)
    IN  IF color.a = 0 THEN fb
        ELSE IF clip_left >= clip_right \/ clip_top >= clip_bottom THEN fb
        ELSE AlphaSolidRows(fmt, fb, clip_top, clip_bottom, clip_left, clip_right, color)

\* AlphaCanvas::clear
alpha_clear(fmt, fb, color) ==
    IF color.a = 0 THEN fb
    ELSE IF color.a = 255 THEN [fb EXCEPT !.buf = [i \in 1..N |-> color.rgb]]
    ELSE [fb EXCEPT !.buf = [i \in 1..N |-> Blend(fmt, color, fb.buf[i])]]

(***************************************************************************)
(* Buffering strategies and the canvas (canvas.rs).                        *)
(*                                                                         *)
(* The sink is an external DrawTarget: all the model keeps of it is the    *)
(* number of fill_contiguous calls it received, the rectangle and colour   *)
(* sequence of the latest one, and what it answered.  Its answer is an     *)
(* input: Ok, or one of its own failure values.                            *)
(***************************************************************************)
Ok == [ok |-> TRUE, err |-> "none"]
Err(e) == [ok |-> FALSE, err |-> e]
SinkErrors == {"E1", "E2"}
SinkAnswers == {Ok} \cup {Err(e) : e \in SinkErrors}

SinkNew == [calls |-> 0, rect |-> Rect(0, 0, 0, 0), colors |-> <<>>, ret |-> Ok]

\* target.fill_contiguous(&rect, colors) answering ret
SinkFillContiguous(target, rect, colors, ret) ==
    [calls |-> target.calls + 1, rect |-> rect, colors |-> colors, ret |-> ret]

DoubleBufferNew ==
    [kind |-> "Double", current |-> FramebufferNew(W, H), reference |-> FramebufferNew(W, H)]

SingleBufferNew == [kind |-> "Single", current |-> FramebufferNew(W, H)]

\* DoubleBuffer as DrawTarget
double_draw_iter(s, pixels) == [s EXCEPT !.current = fb_draw_iter(s.current, pixels).fb]
double_fill_contiguous(s, area, colors) ==
    [s EXCEPT !.current = fb_fill_contiguous(s.current, area, colors).fb]
\* fault variant of DoubleBuffer::fill_solid: writes the reference buffer
double_fill_solid_into_reference(s, area, color) ==
    [s EXCEPT !.reference = fb_fill_solid(s.reference, area, color)]
double_fill_solid(s, area, color) == [s EXCEPT !.current = fb_fill_solid(s.current, area, color)]
double_clear(s, color) == [s EXCEPT !.current = fb_clear(s.current, color)]

\* SingleBuffer as DrawTarget
single_draw_iter(s, pixels) == [s EXCEPT !.current = fb_draw_iter(s.current, pixels).fb]
single_fill_contiguous(s, area, colors) ==
    [s EXCEPT !.current = fb_fill_contiguous(s.current, area, colors).fb]
single_fill_solid(s, area, color) == [s EXCEPT !.current = fb_fill_solid(s.current, area, color)]
single_clear(s, color) == [s EXCEPT !.current = fb_clear(s.current, color)]

\* fault variant of DoubleBuffer::flush: swaps whatever the sink answers
double_flush_swap_first(s, target, ret) ==
    LET rect == Rect(0, 0, W, H)
        t == SinkFillContiguous(target, rect, iter_colors(s.current), ret)
    IN  [strategy |-> [s EXCEPT !.current = s.reference, !.reference = s.current],
         target |-> t, result |-> ret]

\* fault variant of DoubleBuffer::flush: the new current buffer is cleared
double_flush_clears(s, target, ret) ==
    LET rect == Rect(0, 0, W, H)
        t == SinkFillContiguous(target, rect, iter_colors(s.current), ret)
    IN  IF ~ret.ok THEN [strategy |-> s, target |-> t, result |-> ret]
        ELSE [strategy |-> [s EXCEPT !.current = FramebufferNew(W, H),
                                     !.reference = s.current],
              target |-> t, result |-> Ok]

\* DoubleBuffer::flush: `?` returns the sink's failure before the swap
double_flush(s, target, ret) ==
    LET rect == Rect(0, 0, W, H)
        t == SinkFillContiguous(target, rect, iter_colors(s.current), ret)
    IN  IF ~ret.ok THEN [strategy |-> s, target |-> t, result |-> ret]
        ELSE [strategy |-> [s EXCEPT !.current = s.reference, !.reference = s.current],
              target |-> t, result |-> Ok]

\* fault variant of SingleBuffer::flush: streams the cells column by column
single_flush_column_major(s, target, ret) ==
    LET rect == Rect(0, 0, W, H)
        cols == [i \in 1..N |-> s.current.buf[((i - 1) % H) * W + ((i - 1) \div H) + 1]]
    IN  [strategy |-> s, target |-> SinkFillContiguous(target, rect, cols, ret),
         result |-> ret]

\* SingleBuffer::flush
single_flush(s, target, ret) ==
    LET rect == Rect(0, 0, W, H)
    IN  [strategy |-> s,
         target |-> SinkFillContiguous(target, rect, iter_colors(s.current), ret),
         result |-> ret]

\* HasFramebuffer::current_mut, then the alpha surface writes through the borrow
double_current_mut(s) == s.current
single_current_mut(s) == s.current
WithCurrent(s, fb) == [s EXCEPT !.current = fb]

\* Canvas: forwards to its strategy
canvas_draw_iter(s, pixels) ==
    IF s.kind = "Double" THEN double_draw_iter(s, pixels) ELSE single_draw_iter(s, pixels)
canvas_fill_contiguous(s, area, colors) ==
    IF s.kind = "Double" THEN double_fill_contiguous(s, area, colors)
    ELSE single_fill_contiguous(s, area, colors)
canvas_fill_solid(s, area, color) ==
    IF s.kind = "Double" THEN double_fill_solid(s, area, color)
    ELSE single_fill_solid(s, area, color)
canvas_clear(s, color) ==
    IF s.kind = "Double" THEN double_clear(s, color) ELSE single_clear(s, color)
canvas_flush(s, target, ret) ==
    IF s.kind = "Double" THEN double_flush(s, target, ret) ELSE single_flush(s, target, ret)
canvas_alpha(s) ==
    IF s.kind = "Double" THEN double_current_mut(s) ELSE single_current_mut(s)

(***************************************************************************)
(* Inputs.                                                                 *)
(***************************************************************************)
Pixel(x, y, color) == [x |-> x, y |-> y, color |-> color]

\* the k-th colour of a streamed sequence: distinct for distinct k < 31
StreamColor(k) == <<(k + 1) % 32, k % 4, 1>>
StreamColors(len) == [k \in 1..len |-> StreamColor(k - 1)]

\* the alpha of the k-th supplied colour
AlphaPatterns == {"opaque", "clear", "mixed"}
AlphaAt(pat, k) ==
    CASE pat = "opaque" -> 255
      [] pat = "clear" -> 0
      [] pat = "mixed" -> <<255, 0, 128>>[(k % 3) + 1]

RgbaColors(pat, len) == [k \in 1..len |-> Rgba(StreamColor(k - 1), AlphaAt(pat, k - 1))]

Points == {<<x, y>> : x \in -1..W, y \in -1..H}

PointSeqs == UNION {[1..n -> Points] : n \in 0..MaxPixels}

PixelsOf(pts) == [k \in 1..Len(pts) |-> Pixel(pts[k][1], pts[k][2], StreamColor(k - 1))]

RgbaPixelsOf(pts, pat) ==
    [k \in 1..Len(pts) |->
        Pixel(pts[k][1], pts[k][2], Rgba(StreamColor(k - 1), AlphaAt(pat, k - 1)))]

\* rectangles inside, straddling every edge, and wholly outside the buffer
Rects == {Rect(x, y, w, h) : x \in -1..W, y \in -1..H, w \in 0..(W + 2), h \in 0..(H + 2)}

\* lengths of the sequence handed to fill_contiguous: one short, exact, longer
StreamLens(area) == {Max(0, area.w * area.h + e) : e \in {-1, 0, MaxExtra}}

Palette(f) == {WhiteOf(f), RedOf(f)}

Blank == [i \in 1..N |-> BLACK]

\* a buffer with every cell different, and different from every input colour
PatternBuf == [i \in 1..N |-> <<0, i, 2>>]

(***************************************************************************)
(* State.                                                                  *)
(***************************************************************************)
VARIABLES
    fmt,        \* the colour type C the canvas, framebuffer or blend is instantiated at
    strategy,   \* Canvas.strategy: the DoubleBuffer or SingleBuffer
    target,     \* Canvas.target: the sink
    result,     \* what the latest flush returned
    presented,  \* colour sequences of the successful flushes, latest first (at most two)
    ops,        \* operations issued to the canvas so far
    lastOp,     \* the latest canvas operation
    pre,        \* the strategy as it was before the latest canvas operation
    preTarget,  \* the sink as it was before the latest canvas operation
    preOp,      \* the canvas operation before the latest one
    fb,         \* a framebuffer operated on directly
    call,       \* the latest operation on fb: inputs, the buffer before, the iterator after
    bl          \* a blend: inputs and output

vars == <<fmt, strategy, target, result, presented, ops, lastOp, pre, preTarget, preOp,
          fb, call, bl>>

NoStrategy == [kind |-> "None"]
NoCall == [op |-> "none"]
NoBlend == [done |-> FALSE, fg |-> Rgba(BLACK, 0), bg |-> BLACK, out |-> BLACK]

canvasVars == <<strategy, target, result, presented, ops, lastOp, pre, preTarget, preOp>>

(***************************************************************************)
(* Spec: a canvas over a sink, driven by its caller.                       *)
(***************************************************************************)
Init ==
    /\ fmt \in Formats
    /\ strategy \in {DoubleBufferNew, SingleBufferNew}
    /\ target = SinkNew
    /\ result = Ok
    /\ presented = <<>>
    /\ ops = 0
    /\ lastOp = "new"
    /\ pre = strategy
    /\ preTarget = target
    /\ preOp = "new"
    /\ fb = FramebufferNew(W, H)
    /\ call = NoCall
    /\ bl = NoBlend

\* a write: the strategy changes, the sink is not touched
Write(name, s) ==
    /\ ops < MaxOps
    /\ strategy' = s
    /\ pre' = strategy
    /\ preTarget' = target
    /\ preOp' = lastOp
    /\ lastOp' = name
    /\ ops' = ops + 1
    /\ UNCHANGED <<fmt, target, result, presented, fb, call, bl>>

CanvasPixelSeqs(f) ==
    {<<Pixel(0, 0, WhiteOf(f))>>, <<Pixel(W - 1, H - 1, RedOf(f)), Pixel(-1, 0, RedOf(f))>>}

CanvasDrawIter ==
    \E pixels \in CanvasPixelSeqs(fmt) : Write("draw_iter", canvas_draw_iter(strategy, pixels))

CanvasFillContiguous ==
    \E area \in {Rect(0, H - 1, W, 1), Rect(-1, 0, 2, 2)} :
        Write("fill_contiguous",
              canvas_fill_contiguous(strategy, area, StreamColors(area.w * area.h)))

CanvasFillSolid ==
    \E area \in {Rect(0, 0, 1, 1), Rect(W - 1, H - 1, 2, 2)} :
        Write("fill_solid", canvas_fill_solid(strategy, area, WhiteOf(fmt)))

CanvasClear == Write("clear", canvas_clear(strategy, RedOf(fmt)))

\* canvas.alpha().draw_iter(..)
CanvasAlphaDrawIter ==
    Write("alpha_draw_iter",
          WithCurrent(strategy,
              alpha_draw_iter(fmt, canvas_alpha(strategy),
                              <<Pixel(W - 1, 0, Rgba(RedOf(fmt), 128))>>).fb))

\* canvas.alpha().fill_contiguous(..)
CanvasAlphaFillContiguous ==
    Write("alpha_fill_contiguous",
          WithCurrent(strategy,
              alpha_fill_contiguous(fmt, canvas_alpha(strategy), Rect(0, -1, 1, 2),
                                    RgbaColors("opaque", 2)).fb))

\* canvas.alpha().fill_solid(..)
CanvasAlphaFillSolid ==
    Write("alpha_fill_solid",
          WithCurrent(strategy,
              alpha_fill_solid(fmt, canvas_alpha(strategy), Rect(0, 0, 1, H),
                               Rgba(WhiteOf(fmt), 128))))

\* canvas.alpha().clear(..)
CanvasAlphaClear ==
    Write("alpha_clear",
          WithCurrent(strategy, alpha_clear(fmt, canvas_alpha(strategy), Rgba(RedOf(fmt), 255))))

\* Canvas::flush; the sink answers ret
CanvasFlush ==
    \E ret \in SinkAnswers :
        LET r == canvas_flush(strategy, target, ret)
        IN  /\ ops < MaxOps
            /\ strategy' = r.strategy
            /\ target' = r.target
            /\ result' = r.result
            /\ presented' = IF r.result.ok
                            THEN SubSeq(<<r.target.colors>> \o presented, 1,
                                        Min(2, Len(presented) + 1))
                            ELSE presented
            /\ pre' = strategy
            /\ preTarget' = target
            /\ preOp' = lastOp
            /\ lastOp' = "flush"
            /\ ops' = ops + 1
            /\ UNCHANGED <<fmt, fb, call, bl>>

Next ==
    \/ CanvasDrawIter
    \/ CanvasFillContiguous
    \/ CanvasFillSolid
    \/ CanvasClear
    \/ CanvasAlphaDrawIter
    \/ CanvasAlphaFillContiguous
    \/ CanvasAlphaFillSolid
    \/ CanvasAlphaClear
    \/ CanvasFlush

Spec == Init /\ [][Next]_vars

(***************************************************************************)
(* SpecFb: one operation of the Framebuffer, or of the alpha surface over  *)
(* it, applied to a buffer and inputs drawn from the sets above.           *)
(***************************************************************************)
StartBufs == {Blank, PatternBuf}

Call(op, surface, area, colors, pixels, before, it) ==
    [op |-> op, surface |-> surface, area |-> area, colors |-> colors, pixels |-> pixels,
     before |-> before, calls |-> it.calls, rest |-> it.rest]

InitFb ==
    /\ fmt \in Formats
    /\ fb \in {[FramebufferNew(W, H) EXCEPT !.buf = b] : b \in StartBufs}
    /\ call = NoCall
    /\ strategy = NoStrategy
    /\ target = SinkNew
    /\ result = Ok
    /\ presented = <<>>
    /\ ops = 0
    /\ lastOp = "new"
    /\ pre = NoStrategy
    /\ preTarget = SinkNew
    /\ preOp = "new"
    /\ bl = NoBlend

NoRect == Rect(0, 0, 0, 0)

\* the call as recorded, with the access log of the buffer it ran on
WithLog(c, log) ==
    [op |-> c.op, surface |-> c.surface, area |-> c.area, colors |-> c.colors,
     pixels |-> c.pixels, before |-> c.before, calls |-> c.calls, rest |-> c.rest,
     log |-> log]

Applied(newFb, c) ==
    /\ fb' = Plain(newFb)
    /\ call' = WithLog(c, newFb.log)
    /\ UNCHANGED <<fmt, bl>>
    /\ UNCHANGED canvasVars

FbDrawIter ==
    /\ call = NoCall
    /\ \E pts \in PointSeqs :
           LET pixels == PixelsOf(pts)
               r == fb_draw_iter(Logged(fb), pixels)
           IN  Applied(r.fb, Call("draw_iter", "fb", NoRect, <<>>, pixels, fb,
                                  [calls |-> r.consumed, rest |-> <<>>]))

FbFillContiguous ==
    /\ call = NoCall
    /\ \E area \in Rects : \E len \in StreamLens(area) :
           LET colors == StreamColors(len)
               r == fb_fill_contiguous(Logged(fb), area, colors)
           IN  Applied(r.fb, Call("fill_contiguous", "fb", area, colors, <<>>, fb, r.it))

FbFillSolid ==
    /\ call = NoCall
    /\ \E area \in Rects, c \in Palette(fmt) :
           Applied(fb_fill_solid(Logged(fb), area, c),
                   Call("fill_solid", "fb", area, <<c>>, <<>>, fb, IntoIter(<<>>)))

FbClear ==
    /\ call = NoCall
    /\ \E c \in Palette(fmt) :
           Applied(fb_clear(Logged(fb), c), Call("clear", "fb", NoRect, <<c>>, <<>>, fb, IntoIter(<<>>)))

AlphaDrawIter ==
    /\ call = NoCall
    /\ \E pts \in PointSeqs, pat \in AlphaPatterns :
           LET pixels == RgbaPixelsOf(pts, pat)
               r == alpha_draw_iter(fmt, Logged(fb), pixels)
           IN  Applied(r.fb, Call("draw_iter", "alpha", NoRect, <<>>, pixels, fb,
                                  [calls |-> r.consumed, rest |-> <<>>]))

AlphaFillContiguous ==
    /\ call = NoCall
    /\ \E area \in Rects, pat \in AlphaPatterns : \E len \in StreamLens(area) :
           LET colors == RgbaColors(pat, len)
               r == alpha_fill_contiguous(fmt, Logged(fb), area, colors)
           IN  Applied(r.fb, Call("fill_contiguous", "alpha", area, colors, <<>>, fb, r.it))

AlphaFillSolid ==
    /\ call = NoCall
    /\ \E area \in Rects, c \in Palette(fmt), a \in {0, 128, 255} :
           Applied(alpha_fill_solid(fmt, Logged(fb), area, Rgba(c, a)),
                   Call("fill_solid", "alpha", area, <<Rgba(c, a)>>, <<>>, fb, IntoIter(<<>>)))

AlphaClear ==
    /\ call = NoCall
    /\ \E c \in Palette(fmt), a \in {0, 128, 255} :
           Applied(alpha_clear(fmt, Logged(fb), Rgba(c, a)),
                   Call("clear", "alpha", NoRect, <<Rgba(c, a)>>, <<>>, fb, IntoIter(<<>>)))

NextFb ==
    \/ FbDrawIter
    \/ FbFillContiguous
    \/ FbFillSolid
    \/ FbClear
    \/ AlphaDrawIter
    \/ AlphaFillContiguous
    \/ AlphaFillSolid
    \/ AlphaClear

SpecFb == InitFb /\ [][NextFb]_vars

(***************************************************************************)
(* SpecBlend: one blend of a foreground colour and alpha over a            *)
(* background colour, in each format.                                      *)
(***************************************************************************)
Alphas == 0..255

\* greys 0..MaxSample, white, pure red, and a colour with unequal channels
BlendColors(f) ==
    {<<k, k, k>> : k \in 0..MaxSample}
        \cup {WhiteOf(f), RedOf(f), <<ChanMax(f, 1) - 1, ChanMax(f, 2) \div 2, 1>>}

InitBlend ==
    /\ fmt \in Formats
    /\ bl \in {[done |-> FALSE, fg |-> Rgba(c, a), bg |-> b, out |-> BLACK] :
                  c \in BlendColors(fmt), b \in BlendColors(fmt), a \in Alphas}
    /\ fb = FramebufferNew(W, H)
    /\ call = NoCall
    /\ strategy = NoStrategy
    /\ target = SinkNew
    /\ result = Ok
    /\ presented = <<>>
    /\ ops = 0
    /\ lastOp = "new"
    /\ pre = NoStrategy
    /\ preTarget = SinkNew
    /\ preOp = "new"

\* fg.blend(bg)
DoBlend ==
    /\ ~bl.done
    /\ bl' = [bl EXCEPT !.done = TRUE, !.out = Blend(fmt, bl.fg, bl.bg)]
    /\ UNCHANGED <<fmt, fb, call>>
    /\ UNCHANGED canvasVars

NextBlend == DoBlend

SpecBlend == InitBlend /\ [][NextBlend]_vars

(***************************************************************************)
(* Properties of the canvas (Spec).                                        *)
(***************************************************************************)
Writes ==
    {"draw_iter", "fill_contiguous", "fill_solid", "clear",
     "alpha_draw_iter", "alpha_fill_contiguous", "alpha_fill_solid", "alpha_clear"}

\* C1: a Double flush whose sink call fails returns the sink's failure, leaves
\* current and reference where they were with their contents, and a flush
\* retried right after it hands the sink the same colour sequence.
C1_FailedFlushKeepsCurrent ==
    (lastOp = "flush" /\ pre.kind = "Double" /\ ~target.ret.ok) =>
        /\ result = target.ret
        /\ strategy.current = pre.current
        /\ strategy.reference = pre.reference
        /\ (preOp = "flush" /\ ~preTarget.ret.ok /\ preTarget.calls > 0) =>
               (target.colors = preTarget.colors /\ target.rect = preTarget.rect)

\* a failed flush of a drawn frame, retried at once, over a reference that differs
C1_Witness ==
    /\ lastOp = "flush" /\ preOp = "flush" /\ pre.kind = "Double"
    /\ ~target.ret.ok /\ ~preTarget.ret.ok /\ preTarget.calls > 0
    /\ target.ret # preTarget.ret
    /\ strategy.current.buf # strategy.reference.buf

\* C2: a successful Double flush exchanges current and reference and leaves
\* the contents of both alone, so the new current holds the frame presented
\* by the successful flush before this one; writes land in current only.
C2_SuccessfulFlushSwaps ==
    /\ (lastOp = "flush" /\ pre.kind = "Double" /\ target.ret.ok) =>
           /\ strategy.current = pre.reference
           /\ strategy.reference = pre.current
           /\ Len(presented) = 2 => iter_colors(strategy.current) = presented[2]
    /\ (lastOp \in Writes /\ pre.kind = "Double") => strategy.reference = pre.reference

\* the second successful flush hands back a drawn, uncleared frame
C2_Witness ==
    /\ lastOp = "flush" /\ pre.kind = "Double" /\ target.ret.ok
    /\ Len(presented) = 2
    /\ strategy.current.buf # Blank
    /\ strategy.current.buf # strategy.reference.buf

\* C3: every flush, Single or Double, makes one fill_contiguous call on the
\* sink over (0,0) W x H with the W*H cells of current in row-major order,
\* returns the sink's answer, and Single leaves its buffer alone; no other
\* operation calls the sink.
C3_FlushStreamsCurrent ==
    /\ lastOp = "flush" =>
           /\ target.calls = preTarget.calls + 1
           /\ target.rect = Rect(0, 0, W, H)
           /\ Len(target.colors) = W * H
           /\ \A i \in 0..(W * H - 1) :
                  target.colors[i + 1] = Load(pre.current, idx(pre.current, i % W, i \div W))
           /\ result = target.ret
           /\ pre.kind = "Single" => strategy = pre
    /\ lastOp # "flush" => target = preTarget

\* a Single flush of a frame whose cells differ, refused by the sink
C3_Witness ==
    /\ lastOp = "flush" /\ pre.kind = "Single" /\ ~target.ret.ok
    /\ \E i, j \in 1..N : i < j /\ target.colors[i] # target.colors[j]
    /\ target.colors[2] # target.colors[W + 1]

\* C4: once a Double flush has succeeded, the reference buffer holds the
\* colour sequence of the latest successful flush, whatever was written or
\* failed to flush since.
C4_ReferenceIsLastPresented ==
    (strategy.kind = "Double" /\ Len(presented) >= 1) =>
        iter_colors(strategy.reference) = presented[1]

\* an alpha write after a successful flush of a drawn frame
C4_Witness ==
    /\ strategy.kind = "Double" /\ Len(presented) >= 1
    /\ lastOp \in {"alpha_fill_solid", "alpha_draw_iter"}
    /\ strategy.reference.buf # Blank
    /\ strategy.current.buf # strategy.reference.buf

(***************************************************************************)
(* Properties of the framebuffer and the alpha surface (SpecFb).           *)
(***************************************************************************)
Cells == {<<x, y>> : x \in 0..(W - 1), y \in 0..(H - 1)}

CellOf(f, x, y) == f.buf[y * W + x + 1]

InArea(area, x, y) ==
    x >= area.x /\ x < area.x + area.w /\ y >= area.y /\ y < area.y + area.h

Area(call_) == call_.area.w * call_.area.h

\* C5: fill_contiguous, on the Framebuffer and on the alpha surface, given at
\* least width*height colours, advances the sequence width*height times and
\* leaves the rest of it, however much of the rectangle is clipped away.
C5_FillContiguousDrainsExactly ==
    (call.op = "fill_contiguous" /\ Len(call.colors) >= Area(call)) =>
        /\ call.calls = Area(call)
        /\ call.rest = SubSeq(call.colors, Area(call) + 1, Len(call.colors))

\* a rectangle cut on the left, right and top, with a colour to spare
C5_Witness ==
    /\ call.op = "fill_contiguous" /\ call.surface = "fb"
    /\ call.area.x < 0 /\ call.area.x + call.area.w > W /\ call.area.y < 0
    /\ Len(call.colors) > Area(call)
    /\ fb.buf # call.before.buf
    /\ call.calls = Area(call)

\* fill_solid of rectangle (2,2) 4x4 with white on a black 4x4 buffer of format 565
Example4x4 ==
    LET white == WhiteOf("565")
        f4 == [buf |-> [i \in 1..16 |-> BLACK], width |-> 4, height |-> 4]
        r == fb_fill_solid(f4, Rect(2, 2, 4, 4), white)
    IN  \A i \in 0..15 : r.buf[i + 1] = IF i \in {10, 11, 14, 15} THEN white ELSE BLACK

\* C6: after Framebuffer fill_solid(r, c) every cell of r inside the bounds
\* holds c and every other cell holds what it held before.
C6_FillSolidWritesIntersection ==
    /\ (call.op = "fill_solid" /\ call.surface = "fb") =>
           /\ \A p \in Cells :
                  CellOf(fb, p[1], p[2]) =
                      IF InArea(call.area, p[1], p[2]) THEN call.colors[1]
                      ELSE CellOf(call.before, p[1], p[2])
           /\ Len(fb.buf) = N /\ fb.width = W /\ fb.height = H
    /\ call = NoCall => Example4x4

\* a rectangle hanging over the right and bottom edges, on a patterned buffer
C6_Witness ==
    /\ call.op = "fill_solid" /\ call.surface = "fb"
    /\ call.area.x >= 1 /\ call.area.x + call.area.w > W
    /\ call.area.y >= 1 /\ call.area.y + call.area.h > H
    /\ call.before.buf = PatternBuf
    /\ fb.buf # call.before.buf

\* the pairs of the input that name cell (x, y)
Naming(pixels, x, y) == {k \in 1..Len(pixels) : pixels[k].x = x /\ pixels[k].y = y}

Last(ks) == CHOOSE k \in ks : \A j \in ks : j <= k

\* C7: Framebuffer draw_iter consumes every pair; a cell named by an
\* in-bounds pair holds the colour of the last such pair, every other cell
\* is unchanged, and pairs outside the bounds change nothing.
C7_DrawIterOverwritesInBounds ==
    (call.op = "draw_iter" /\ call.surface = "fb") =>
        /\ call.calls = Len(call.pixels)
        /\ \A p \in Cells :
               CellOf(fb, p[1], p[2]) =
                   IF Naming(call.pixels, p[1], p[2]) = {}
                   THEN CellOf(call.before, p[1], p[2])
                   ELSE call.pixels[Last(Naming(call.pixels, p[1], p[2]))].color
        /\ Len(fb.buf) = N

\* a pair with a negative coordinate followed by one inside the bounds
C7_Witness ==
    /\ call.op = "draw_iter" /\ call.surface = "fb"
    /\ Len(call.pixels) = 2
    /\ call.pixels[1].x = -1
    /\ call.pixels[2].x = W - 1 /\ call.pixels[2].y = H - 1
    /\ CellOf(fb, W - 1, H - 1) = call.pixels[2].color
    /\ call.before.buf = PatternBuf

\* the colours handed to the alpha surface by the latest call
Supplied ==
    IF call.op = "draw_iter" THEN [k \in 1..Len(call.pixels) |-> call.pixels[k].color]
    ELSE call.colors

AllAlpha(a) == \A k \in 1..Len(Supplied) : Supplied[k].a = a

\* the Framebuffer operation matching the latest alpha call, with the same colours opaque
Overwrite ==
    LET rgb == [k \in 1..Len(Supplied) |-> Supplied[k].rgb]
    IN  CASE call.op = "draw_iter" ->
                 fb_draw_iter(call.before,
                     [k \in 1..Len(call.pixels) |->
                         Pixel(call.pixels[k].x, call.pixels[k].y, rgb[k])]).fb
          [] call.op = "fill_contiguous" -> fb_fill_contiguous(call.before, call.area, rgb).fb
          [] call.op = "fill_solid" -> fb_fill_solid(call.before, call.area, rgb[1])
          [] call.op = "clear" -> fb_clear(call.before, rgb[1])

\* C10: an alpha surface operation whose colours all have alpha 255 leaves
\* the buffer the Framebuffer operation would; one whose colours all have
\* alpha 0 leaves the buffer as it was.
C10_OpaqueOverwritesClearKeeps ==
    (call # NoCall /\ call.surface = "alpha") =>
        /\ AllAlpha(255) => fb = Overwrite
        /\ AllAlpha(0) => fb = call.before

\* an opaque streamed fill cut on the left, which changed the buffer
C10_Witness ==
    /\ call # NoCall /\ call.surface = "alpha" /\ call.op = "fill_contiguous"
    /\ AllAlpha(255) /\ Len(call.colors) >= Area(call)
    /\ call.area.x < 0 /\ call.area.w > 1
    /\ fb.buf # call.before.buf

\* C12: after Framebuffer fill_contiguous(r, s) with s of length
\* r.width*r.height, each cell (x, y) of r inside the bounds holds the
\* element of s at row-major position (y - r.y)*r.width + (x - r.x), also when
\* columns to the left or rows above are clipped away, and every cell outside
\* r holds what it held before.
C12_FillContiguousPlacesColours ==
    (call.op = "fill_contiguous" /\ call.surface = "fb" /\ Len(call.colors) = Area(call)) =>
        \A p \in Cells :
            CellOf(fb, p[1], p[2]) =
                IF InArea(call.area, p[1], p[2])
                THEN call.colors[(p[2] - call.area.y) * call.area.w + (p[1] - call.area.x) + 1]
                ELSE CellOf(call.before, p[1], p[2])

\* a rectangle cut on the left and on the top, written over a patterned buffer
C12_Witness ==
    /\ call.op = "fill_contiguous" /\ call.surface = "fb"
    /\ Len(call.colors) = Area(call)
    /\ call.area.x < 0 /\ call.area.y < 0 /\ call.area.w > 1 /\ call.area.h > 1
    /\ call.before.buf = PatternBuf
    /\ CellOf(fb, 0, 0) = call.colors[call.area.w + 2]
    /\ CellOf(fb, 0, 0) # CellOf(call.before, 0, 0)

\* the indices y*width + x of the cells of the buffer
ValidIndices == {y * W + x : x \in 0..(W - 1), y \in 0..(H - 1)}

\* every index read or written names a cell, and no index or slice range was
\* refused by a bounds check
IndicesInBounds ==
    (call # NoCall /\ call.op \in {"draw_iter", "fill_solid", "fill_contiguous"}) =>
        /\ call.log.touched \subseteq ValidIndices
        /\ \A i \in call.log.touched : i < W * H
        /\ ~call.log.oob

\* C11: on a buffer of length width*height, every cell index that draw_iter,
\* fill_solid or fill_contiguous of the Framebuffer or of the alpha surface
\* reads or writes is y*width + x for a cell (x, y) of the buffer, hence below
\* width*height, for every point and rectangle, and no such operation panics
\* part-way through: neither on a bounds check nor on an arithmetic overflow.
C11_IndicesInBoundsNoPanic ==
    /\ IndicesInBounds
    /\ (call # NoCall /\ call.op \in {"draw_iter", "fill_solid", "fill_contiguous"}) =>
           ~call.log.overflowed

\* a streamed alpha fill that has overwritten its first cell when a later,
\* translucent colour with a channel below the cell's overflows in blend
C11_OverflowAfterFirstWrite ==
    /\ call # NoCall /\ call.surface = "alpha" /\ call.op = "fill_contiguous"
    /\ call.area = Rect(0, 0, W, H)
    /\ call.colors[1].a = 255 /\ call.colors[2].a = 0
    /\ CellOf(fb, 0, 0) = call.colors[1].rgb
    /\ CellOf(fb, 0, 0) # CellOf(call.before, 0, 0)
    /\ call.log.overflowed

(***************************************************************************)
(* Properties of blend (SpecBlend).                                        *)
(***************************************************************************)
\* C8: in each format, blend with alpha 0 returns the background colour and
\* blend with alpha 255 returns the foreground colour.
C8_BlendEndpoints ==
    bl.done =>
        /\ bl.fg.a = 0 => bl.out = bl.bg
        /\ bl.fg.a = 255 => bl.out = bl.fg.rgb

\* an opaque blend in format 565 over a different background
C8_Witness ==
    /\ bl.done /\ fmt = "565" /\ bl.fg.a = 255
    /\ bl.fg.rgb # bl.bg
    /\ bl.out = bl.fg.rgb

\* round(n / 255), to nearest, of a signed n (n / 255 is never a tie)
Round255(n) == (2 * n + 255) \div 510

\* C9: for alpha in 1..254 each output channel is the background channel plus
\* round((foreground - background) * alpha / 255), masked to the channel width,
\* also when the foreground channel is below the background channel.
C9_BlendIsExactRounding ==
    (bl.done /\ bl.fg.a \in 1..254) =>
        \A i \in 1..3 :
            bl.out[i] =
                (bl.bg[i] + Round255((bl.fg.rgb[i] - bl.bg[i]) * bl.fg.a))
                    % (2 ^ ChanBits(fmt)[i])

\* C13: in each format, for every alpha and every foreground and background,
\* each channel of the blended colour lies between the background channel and
\* the foreground channel inclusive, also when the foreground channel is below
\* the background channel and the subtraction wraps modulo 2^32.
\* For one blend of each alpha in format 565 the channel arithmetic is also
\* tried on every pair of 5-bit and of 6-bit channel values.
C13_BlendStaysBetween ==
    /\ bl.done =>
           \A i \in 1..3 :
               /\ Min(bl.fg.rgb[i], bl.bg[i]) <= bl.out[i]
               /\ bl.out[i] <= Max(bl.fg.rgb[i], bl.bg[i])
    /\ (bl.done /\ fmt = "565" /\ bl.fg.rgb = BLACK /\ bl.bg = BLACK /\ bl.fg.a \in 1..254) =>
           \A bits \in {5, 6} : \A f, b \in 0..(2 ^ bits - 1) :
               LET o == BlendChannel(f, b, bl.fg.a, bits)
               IN  Min(f, b) <= o /\ o <= Max(f, b)

\* a translucent darker foreground: the result is strictly between the two
C13_Witness ==
    /\ bl.done /\ bl.fg.a \in 1..254
    /\ bl.fg.rgb[1] < bl.out[1] /\ bl.out[1] < bl.bg[1]
    /\ bl.fg.rgb[2] > bl.out[2] /\ bl.out[2] > bl.bg[2]

====
